---- MODULE Spec2Model ----
(***************************************************************************)
(* Model of tauri-plugin-iap: the command layer (commands.rs), the backend *)
(* selection of the plugin setup (lib.rs), the unsupported-platform        *)
(* backend (desktop.rs), the native backend and its JNI callbacks          *)
(* (mobile.rs) and the translation of native status codes (error.rs).      *)
(***************************************************************************)
EXTENDS Integers, Sequences, FiniteSets, TLC

VARIABLES
    cfg,        \* build configuration: "mobile" or "desktop" (lib.rs cfg attributes)
    managed,    \* the Iap state the application manages: "none" before setup
    proc,       \* the process: "running", "setup_failed" or a panic outcome
    calls,      \* the commands invoked so far, in order of invocation
    invoked,    \* the native invocations issued through run_mobile_plugin
    tx,         \* the native store's transactions (its own state)
    lastEvent,  \* the JNI callback that panicked, and its payload
    code,       \* from_response_code: the native status code
    message,    \* from_response_code: the optional native message
    err         \* from_response_code: the error returned

vars == <<cfg, managed, proc, calls, invoked, tx, lastEvent, code, message, err>>

iapVars == <<cfg, managed, proc, calls, invoked, tx, lastEvent>>
errVars == <<code, message, err>>

----------------------------------------------------------------------------
(* Bounds of the model *)

MaxCode == 9

\* Option<T>
Nothing == [some |-> FALSE]
Some(v) == [some |-> TRUE, value |-> v]
Unit == "()"
NoErr == [kind |-> "none"]

----------------------------------------------------------------------------
(* error.rs *)

\* The variants of the enum Error.
Error ==
    {"Io", "PluginInvoke", "PlatformNotSupported", "BillingClientInitError",
     "ProductQueryError", "PurchaseError", "ConsumptionError", "RestoreError",
     "InvalidPurchaseToken", "NetworkError", "UserCancelled", "ItemAlreadyOwned",
     "ServiceDisconnected", "FeatureNotSupported", "InternalError"}

\* The separate error type from_response_code names for code 5.
ItemNotOwned == "ItemNotOwned"

ErrorKinds == Error \cup {ItemNotOwned}

\* The variants declared without a field: they cannot hold a message.
UnitVariants == {"PlatformNotSupported", "UserCancelled", "ItemAlreadyOwned",
                 "ServiceDisconnected"}

\* code: i32
I32Max == 2147483647
I32Min == (-I32Max) - 1

\* message.unwrap_or_else(|| default)
unwrap_or_else(opt, default) == IF opt.some THEN opt.value ELSE default

\* f!("Unknown error code: {}", code)
UnknownErrorCode(c) == "Unknown error code: " \o ToString(c)

WithMessage(kind, msg) == [kind |-> kind, msg |-> msg]
Bare(kind) == [kind |-> kind]

from_response_code_unreachable(c, m) ==
    CASE c = 0 -> WithMessage("InternalError", unwrap_or_else(m, UnknownErrorCode(c)))
      [] c = 1 -> Bare("UserCancelled")
      [] c = 2 -> Bare("ServiceDisconnected")
      [] c = 3 -> WithMessage("BillingClientInitError", unwrap_or_else(m, "Billing unavailable"))
      [] c = 4 -> Bare("ItemAlreadyOwned")
      [] c = 5 -> WithMessage(ItemNotOwned, unwrap_or_else(m, "Item not owned"))
      [] c = 6 -> WithMessage("NetworkError", unwrap_or_else(m, "Network error"))
      [] c = 7 -> WithMessage("FeatureNotSupported", unwrap_or_else(m, "Feature not supported"))
      [] OTHER -> Bare("panic")

from_response_code_no_code(c, m) ==
    CASE c = 0 -> WithMessage("InternalError", unwrap_or_else(m, "Unknown error code"))
      [] c = 1 -> Bare("UserCancelled")
      [] c = 2 -> Bare("ServiceDisconnected")
      [] c = 3 -> WithMessage("BillingClientInitError", unwrap_or_else(m, "Billing unavailable"))
      [] c = 4 -> Bare("ItemAlreadyOwned")
      [] c = 5 -> WithMessage(ItemNotOwned, unwrap_or_else(m, "Item not owned"))
      [] c = 6 -> WithMessage("NetworkError", unwrap_or_else(m, "Network error"))
      [] c = 7 -> WithMessage("FeatureNotSupported", unwrap_or_else(m, "Feature not supported"))
      [] OTHER -> WithMessage("InternalError", unwrap_or_else(m, "Unknown error code"))

from_response_code_default_text(c, m) ==
    CASE c = 0 -> WithMessage("InternalError", unwrap_or_else(m, UnknownErrorCode(c)))
      [] c = 1 -> Bare("UserCancelled")
      [] c = 2 -> Bare("ServiceDisconnected")
      [] c = 3 -> WithMessage("BillingClientInitError", "Billing unavailable")
      [] c = 4 -> Bare("ItemAlreadyOwned")
      [] c = 5 -> WithMessage(ItemNotOwned, "Item not owned")
      [] c = 6 -> WithMessage("NetworkError", "Network error")
      [] c = 7 -> WithMessage("FeatureNotSupported", "Feature not supported")
      [] OTHER -> WithMessage("InternalError", unwrap_or_else(m, UnknownErrorCode(c)))

from_response_code(c, m) ==
    CASE c = 0 -> WithMessage("InternalError", unwrap_or_else(m, UnknownErrorCode(c)))
      [] c = 1 -> Bare("UserCancelled")
      [] c = 2 -> Bare("ServiceDisconnected")
      [] c = 3 -> WithMessage("BillingClientInitError", unwrap_or_else(m, "Billing unavailable"))
      [] c = 4 -> Bare("ItemAlreadyOwned")
      [] c = 5 -> WithMessage(ItemNotOwned, unwrap_or_else(m, "Item not owned"))
      [] c = 6 -> WithMessage("NetworkError", unwrap_or_else(m, "Network error"))
      [] c = 7 -> WithMessage("FeatureNotSupported", unwrap_or_else(m, "Feature not supported"))
      [] OTHER -> WithMessage("InternalError", unwrap_or_else(m, UnknownErrorCode(c)))

\* The status codes and messages the translation is applied to: the codes of
\* the table, codes around it, and the ends of i32. One message has the very
\* text of the fallback of another code.
Codes == (-3 .. MaxCode) \cup {I32Min, I32Max}
Messages ==
    {Nothing} \cup {Some(m) : m \in {"", "billing: item unavailable", "Unknown error code: 9"}}

\* Whether an error holds a message (a variant with a String field).
HasMessage(e) == "msg" \in DOMAIN e


----------------------------------------------------------------------------
(* models.rs: the values exchanged with the native backend *)

TxIds == {"t1"}
UserNames == {Nothing, Some("alice")}

\* ProductDetails, with the fields that tell two products apart
ProductDetails(id) == [id |-> id, price |-> "1.00", currencyCode |-> "USD"]

\* PurchaseParam
PurchaseParam(id, user) ==
    [productDetails |-> ProductDetails(id), applicationUserName |-> user]

\* PurchaseDetails of a transaction to complete
PurchaseDetails(t) ==
    [purchaseId |-> t, productId |-> "p1", status |-> "purchased",
     pendingCompletePurchase |-> TRUE]

\* ProductDetailsResponse
ProductDetailsResponse(found, notFound) ==
    [productDetails |-> found, notFoundIds |-> notFound, error |-> Nothing]

\* The fields of PurchaseDetails that are not Option: serde requires them.
RequiredFields == {"productId", "verificationData", "status", "pendingCompletePurchase"}

\* PurchaseStatus, as rename_all = "lowercase" spells it
PurchaseStatus == {"pending", "purchased", "error", "restored", "canceled"}

Ok(v) == [ok |-> TRUE, value |-> v]
Err(e) == [ok |-> FALSE, error |-> e]

----------------------------------------------------------------------------
(* commands.rs: what each command passes to the backend *)

Ops == {"initialize", "is_available", "query_product_details", "buy_non_consumable",
        "buy_consumable", "complete_purchase", "restore_purchases", "country_code"}

\* The argument lists the commands are invoked with.
IdLists == { << >>, <<"p1">>, <<"p1", "p2">>, <<"p2", "p2">> }

Args(op) ==
    CASE op = "query_product_details" -> {[product_ids |-> l] : l \in IdLists}
      [] op = "buy_non_consumable" -> {[purchase_param |-> PurchaseParam("p1", Nothing)]}
      [] op = "buy_consumable" ->
            {[purchase_param |-> PurchaseParam("p2", Nothing), auto_consume |-> a] :
                a \in {Nothing, Some(TRUE), Some(FALSE)}}
      [] op = "complete_purchase" -> {[purchase |-> PurchaseDetails(t)] : t \in TxIds}
      [] op = "restore_purchases" -> {[application_user_name |-> u] : u \in UserNames}
      [] OTHER -> {[none |-> Unit]}

\* auto_consume.unwrap_or(false)
unwrap_or(opt, default) == IF opt.some THEN opt.value ELSE default

commands_buy_consumable_default_true(arg) ==
    [purchase_param |-> arg.purchase_param,
     auto_consume |-> unwrap_or(arg.auto_consume, TRUE)]

commands_buy_consumable(arg) ==
    [purchase_param |-> arg.purchase_param,
     auto_consume |-> unwrap_or(arg.auto_consume, FALSE)]

\* The arguments a command hands to the method of Iap of the same name.
Passed(op, arg) ==
    IF op = "buy_consumable" THEN commands_buy_consumable(arg) ELSE arg

----------------------------------------------------------------------------
(* lib.rs: the backend behind the commands *)

\* setup: mobile::init or desktop::init, by the build configuration
BackendOf(c) == IF c = "mobile" THEN "Native" ELSE "Unsupported"

iap_desktop(state) == "Unsupported"

\* IapExt::iap: the managed state
iap(state) == state

----------------------------------------------------------------------------
(* desktop.rs: every method fails, whatever its arguments *)

desktop_available_false(op, passed) ==
    IF op = "is_available" THEN Ok(FALSE) ELSE Err(Bare("PlatformNotSupported"))

desktop(op, passed) == Err(Bare("PlatformNotSupported"))

----------------------------------------------------------------------------
(* mobile.rs: every method is one run_mobile_plugin(name, payload) *)

Invocation(name, payload) == [name |-> name, payload |-> payload]

mobile_initialize == Invocation("initialize", Unit)
mobile_is_available_as_initialize == Invocation("initialize", Unit)
mobile_is_available == Invocation("is_available", Unit)
mobile_query_product_details(product_ids) ==
    Invocation("query_product_details", [productIds |-> product_ids])
mobile_buy_non_consumable(purchase_param) ==
    Invocation("buy_non_consumable", purchase_param)
mobile_buy_consumable(purchase_param, auto_consume) ==
    Invocation("buy_consumable",
               [purchaseParam |-> purchase_param, autoConsume |-> auto_consume])
mobile_complete_purchase(purchase) == Invocation("complete_purchase", purchase)
mobile_restore_purchases(application_user_name) ==
    Invocation("restore_purchases", [applicationUserName |-> application_user_name])
mobile_country_code == Invocation("country_code", Unit)

mobile(op, passed) ==
    CASE op = "initialize" -> mobile_initialize
      [] op = "is_available" -> mobile_is_available
      [] op = "query_product_details" -> mobile_query_product_details(passed.product_ids)
      [] op = "buy_non_consumable" -> mobile_buy_non_consumable(passed.purchase_param)
      [] op = "buy_consumable" ->
            mobile_buy_consumable(passed.purchase_param, passed.auto_consume)
      [] op = "complete_purchase" -> mobile_complete_purchase(passed.purchase)
      [] op = "restore_purchases" ->
            mobile_restore_purchases(passed.application_user_name)
      [] op = "country_code" -> mobile_country_code

\* .map_err(Into::into): Error::PluginInvoke(#[from] PluginInvokeError)
map_err_into(response) ==
    IF response.ok THEN response
    ELSE Err([kind |-> "PluginInvoke", source |-> response.error])

----------------------------------------------------------------------------
(* The native plugin behind run_mobile_plugin (the Kotlin and Swift side):   *)
(* the store it talks to, as sections 4.1 and 8 of the specification give it *)

Catalog == {"p1"}

NativeError == "billing service error"

RECURSIVE Dedup(_)
Dedup(s) ==
    IF s = << >> THEN << >>
    ELSE LET rest == Dedup(Tail(s))
         IN  IF \E i \in 1..Len(rest) : rest[i] = Head(s)
             THEN rest ELSE <<Head(s)>> \o rest

InCatalog(id) == id \in Catalog
NotInCatalog(id) == id \notin Catalog

RECURSIVE MapDetails(_)
MapDetails(s) ==
    IF s = << >> THEN << >> ELSE <<ProductDetails(Head(s))>> \o MapDetails(Tail(s))

NativeQuery_all_requested_missing(ids) ==
    ProductDetailsResponse(MapDetails(SelectSeq(Dedup(ids), InCatalog)), ids)

\* query_product_details: found and missing ids of the request
NativeQuery(ids) ==
    ProductDetailsResponse(MapDetails(SelectSeq(Dedup(ids), InCatalog)),
                           SelectSeq(Dedup(ids), NotInCatalog))

FreeTx == {t \in TxIds : tx[t] = "none"}

NativeComplete_reports_acknowledged(t) ==
    CASE tx[t] = "purchased" ->
            {<<Ok(Unit), [tx EXCEPT ![t] = "completed"]>>, <<Err(NativeError), tx>>}
      [] tx[t] = "completed" -> {<<Err("purchase already acknowledged"), tx>>}
      [] tx[t] = "consumed" -> {<<Ok(Unit), tx>>, <<Err(NativeError), tx>>}
      [] OTHER -> {<<Err(NativeError), tx>>}

\* complete_purchase: acknowledges a purchase that awaits completion; on a
\* purchase already completed it is a no-op that succeeds.
NativeComplete(t) ==
    CASE tx[t] = "purchased" ->
            {<<Ok(Unit), [tx EXCEPT ![t] = "completed"]>>, <<Err(NativeError), tx>>}
      [] tx[t] = "completed" -> {<<Ok(Unit), tx>>}
      [] tx[t] = "consumed" -> {<<Ok(Unit), tx>>, <<Err(NativeError), tx>>}
      [] OTHER -> {<<Err(NativeError), tx>>}

\* What the native plugin may answer to an invocation, and the store after it:
\* a set of <<response, transactions>>. Every invocation may fail, except the
\* completion of an already completed transaction, which is a no-op.
NativeHandle(name, payload) ==
    LET fail == {<<Err(NativeError), tx>>} IN
    CASE name = "initialize" -> {<<Ok(Unit), tx>>} \cup fail
      [] name = "is_available" -> {<<Ok(TRUE), tx>>, <<Ok(FALSE), tx>>} \cup fail
      [] name = "query_product_details" ->
            {<<Ok(NativeQuery(payload.productIds)), tx>>} \cup fail
      [] name = "buy_non_consumable" ->
            {<<Ok(TRUE), [tx EXCEPT ![t] = "launched"]>> : t \in FreeTx} \cup fail
      [] name = "buy_consumable" ->
            {<<Ok(TRUE), [tx EXCEPT ![t] =
                    IF payload.autoConsume THEN "launched_auto" ELSE "launched"]>> :
                t \in FreeTx} \cup fail
      [] name = "complete_purchase" -> NativeComplete(payload.purchaseId)
      [] name = "restore_purchases" -> {<<Ok(Unit), tx>>} \cup fail
      [] name = "country_code" -> {<<Ok("US"), tx>>} \cup fail

----------------------------------------------------------------------------
(* mobile.rs, mod android: the JNI callbacks *)

NullRef == [shape |-> "null"]

Item(fields, status) == [fields |-> fields, status |-> status]

\* The strings the Java side may hand over.
Payloads ==
    { NullRef,
      [shape |-> "text"],
      [shape |-> "array", items |-> <<Item(RequiredFields, "purchased")>>],
      [shape |-> "array", items |-> <<Item(RequiredFields \ {"productId"}, "purchased")>>] }

\* env.get_string(jstring): fails on a null reference
get_string(p) == IF p = NullRef THEN Err("NullPtr") ELSE Ok(p)

\* serde_json::from_str::<Vec<PurchaseDetails>>
from_str(p) ==
    IF /\ p.shape = "array"
       /\ \A i \in 1..Len(p.items) :
            /\ RequiredFields \subseteq p.items[i].fields
            /\ p.items[i].status \in PurchaseStatus
    THEN Ok(p.items)
    ELSE Err("Failed to parse purchase details")

\* A panic in an extern "system" function: the process aborts, or (before
\* the abort-on-unwind rule) unwinds into the Java frames, which is undefined.
PanicOutcomes == {"aborted", "unwound_into_jvm"}

NoEvent == [handler |-> "none"]

---------------------------------------------------------------------------------------------------------------------------------------------------
(* The state machine *)

\* The concurrent application-side callers of the commands.
Callers == {"a", "b"}

Idle == [status |-> "idle"]

Returned(c) == calls[c].status \in {"idle", "done"}

\* The invocations in flight that caller c's command has issued.
InFlight(c) == {k \in 1..Len(invoked) : invoked[k].caller = c}

RECURSIVE Remove(_, _)
Remove(s, k) ==
    IF k = 1 THEN Tail(s) ELSE <<Head(s)>> \o Remove(Tail(s), k - 1)

Init ==
    /\ cfg \in {"mobile", "desktop"}
    /\ managed = "none"
    /\ proc = "running"
    /\ calls = [c \in Callers |-> Idle]
    /\ invoked = << >>
    /\ tx = [t \in TxIds |-> "none"]
    /\ lastEvent = NoEvent
    /\ code = 0
    /\ message = Nothing
    /\ err = NoErr

\* lib.rs setup: init of the configured backend, then app.manage(iap)
Setup ==
    /\ proc = "running"
    /\ managed = "none"
    /\ managed' = BackendOf(cfg)
    /\ UNCHANGED <<cfg, proc, calls, invoked, tx, lastEvent, errVars>>

\* mobile::init: register_android_plugin / register_ios_plugin fails (`?`)
SetupFails ==
    /\ proc = "running"
    /\ managed = "none"
    /\ cfg = "mobile"
    /\ proc' = "setup_failed"
    /\ UNCHANGED <<cfg, managed, calls, invoked, tx, lastEvent, errVars>>

\* A command on the unsupported backend: it returns at once.
CallDesktop(c, op, arg) ==
    /\ proc = "running"
    /\ managed # "none"
    /\ Returned(c)
    /\ iap(managed) = "Unsupported"
    /\ calls' = [calls EXCEPT ![c] =
            [op |-> op, arg |-> arg, backend |-> iap(managed),
             passed |-> Passed(op, arg), status |-> "done",
             response |-> Nothing, result |-> desktop(op, Passed(op, arg))]]
    /\ UNCHANGED <<cfg, managed, proc, invoked, tx, lastEvent, errVars>>

\* A command on the native backend: run_mobile_plugin sends the invocation
\* and the caller waits for the answer.
CallMobile(c, op, arg) ==
    /\ proc = "running"
    /\ managed # "none"
    /\ Returned(c)
    /\ iap(managed) = "Native"
    /\ calls' = [calls EXCEPT ![c] =
            [op |-> op, arg |-> arg, backend |-> iap(managed),
             passed |-> Passed(op, arg), status |-> "pending",
             response |-> Nothing, result |-> Nothing]]
    /\ invoked' = Append(invoked, [caller |-> c, inv |-> mobile(op, Passed(op, arg))])
    /\ UNCHANGED <<cfg, managed, proc, tx, lastEvent, errVars>>

\* The native plugin answers invocation k; run_mobile_plugin returns and the
\* command returns the answer to its caller.
NativeResponds(k) ==
    /\ proc = "running"
    /\ \E r \in NativeHandle(invoked[k].inv.name, invoked[k].inv.payload) :
        /\ invoked' = Remove(invoked, k)
        /\ tx' = r[2]
        /\ calls' = [calls EXCEPT ![invoked[k].caller].status = "done",
                                  ![invoked[k].caller].response = Some(r[1]),
                                  ![invoked[k].caller].result = map_err_into(r[1])]
    /\ UNCHANGED <<cfg, managed, proc, lastEvent, errVars>>

\* The store ends a launched purchase flow: the purchase awaits completion,
\* or is consumed at once when the flow was launched with autoConsume.
StoreFlowEnds(t) ==
    /\ proc = "running"
    /\ tx[t] \in {"launched", "launched_auto"}
    /\ tx' = [tx EXCEPT ![t] = IF tx[t] = "launched_auto" THEN "consumed" ELSE "purchased"]
    /\ UNCHANGED <<cfg, managed, proc, calls, invoked, lastEvent, errVars>>

\* Java_com_plugin_iap_IapPlugin_onPurchaseUpdate
onPurchaseUpdate(p) ==
    /\ proc = "running"
    /\ managed = "Native"
    /\ LET s == get_string(p)
           parsed == IF s.ok THEN from_str(s.value) ELSE s
       IN  IF parsed.ok
           THEN UNCHANGED <<proc, lastEvent>>
           ELSE /\ proc' \in PanicOutcomes
                /\ lastEvent' = [handler |-> "onPurchaseUpdate", payload |-> p]
    /\ UNCHANGED <<cfg, managed, calls, invoked, tx, errVars>>

\* Java_com_plugin_iap_IapPlugin_handleError
handleError(p) ==
    /\ proc = "running"
    /\ managed = "Native"
    /\ LET s == get_string(p)
       IN  IF s.ok
           THEN UNCHANGED <<proc, lastEvent>>
           ELSE /\ proc' \in PanicOutcomes
                /\ lastEvent' = [handler |-> "handleError", payload |-> p]
    /\ UNCHANGED <<cfg, managed, calls, invoked, tx, errVars>>

Next ==
    \/ Setup
    \/ SetupFails
    \/ \E c \in Callers : \E op \in Ops : \E arg \in Args(op) : CallDesktop(c, op, arg)
    \/ \E c \in Callers : \E op \in Ops : \E arg \in Args(op) : CallMobile(c, op, arg)
    \/ \E k \in 1..Len(invoked) : NativeResponds(k)
    \/ \E t \in TxIds : StoreFlowEnds(t)
    \/ \E p \in Payloads : onPurchaseUpdate(p)
    \/ \E p \in Payloads : handleError(p)

Spec == Init /\ [][Next]_vars

----------------------------------------------------------------------------
(* The translation of status codes, applied to every code and message *)

InitErr ==
    /\ cfg = "mobile"
    /\ managed = "none"
    /\ proc = "running"
    /\ calls = [c \in Callers |-> Idle]
    /\ invoked = << >>
    /\ tx = [t \in TxIds |-> "none"]
    /\ lastEvent = NoEvent
    /\ code \in Codes
    /\ message \in Messages
    /\ err = NoErr

Translate ==
    /\ err = NoErr
    /\ err' = from_response_code(code, message)
    /\ UNCHANGED <<code, message>>
    /\ UNCHANGED iapVars

NextErr == Translate

SpecErr == InitErr /\ [][NextErr]_vars

----------------------------------------------------------------------------
\* C2: the translation returns, for every status code and every optional
\* message, one error of the closed set of kinds, and every code outside the
\* table 1..7 gives InternalError.
C2_TranslationTotal ==
    err # NoErr =>
        /\ err.kind \in ErrorKinds
        /\ (code \notin 1..7 => err.kind = "InternalError")

C2_Witness ==
    /\ err # NoErr
    /\ code = I32Min
    /\ message.some
    /\ err.kind = "InternalError"

----------------------------------------------------------------------------
\* C3 as claimed: for every unrecognized status code, with or without a native
\* message, the InternalError returned holds the text made from the raw code.
C3_CarriesRawCode ==
    (err # NoErr /\ code \notin 0..7) =>
        /\ err.kind = "InternalError"
        /\ err.msg = UnknownErrorCode(code)

\* C3 as amended: for every status code outside 1..7 the error is InternalError;
\* it holds the text made from the raw code when no native message comes with
\* the code, and the native message verbatim (not the code) when one does.
C3_CarriesCodeOrMessage ==
    (err # NoErr /\ code \notin 1..7) =>
        /\ err.kind = "InternalError"
        /\ ~message.some => err.msg = UnknownErrorCode(code)
        /\ message.some => err.msg = message.value

C3_Witness ==
    /\ err # NoErr
    /\ code = I32Max
    /\ message = Nothing
    /\ err.msg = "Unknown error code: 2147483647"

----------------------------------------------------------------------------
\* The table of the known codes, as the claim lists it.
KindOfCode(c) ==
    CASE c = 1 -> "UserCancelled"
      [] c = 2 -> "ServiceDisconnected"
      [] c = 3 -> "BillingClientInitError"
      [] c = 4 -> "ItemAlreadyOwned"
      [] c = 5 -> "ItemNotOwned"
      [] c = 6 -> "NetworkError"
      [] c = 7 -> "FeatureNotSupported"

\* C4 as claimed: a known code translated together with a native message m
\* gives the kind of the table, and the error holds m verbatim.
C4_KnownCodeCarriesMessage ==
    (err # NoErr /\ code \in 1..7 /\ message.some) =>
        /\ err.kind = KindOfCode(code)
        /\ HasMessage(err)
        /\ err.msg = message.value

\* C4 as amended: a known code translated together with a native message m
\* gives the kind of the table; for the codes 3, 5, 6 and 7 the error holds m
\* verbatim, and for the codes 1, 2 and 4 the kind has no message field and m
\* is discarded.
C4_KnownCodeKindAndMessage ==
    (err # NoErr /\ code \in 1..7 /\ message.some) =>
        /\ err.kind = KindOfCode(code)
        /\ code \in {3, 5, 6, 7} => HasMessage(err) /\ err.msg = message.value
        /\ code \in {1, 2, 4} => ~HasMessage(err) /\ err.kind \in UnitVariants

C4_Witness ==
    /\ err # NoErr
    /\ code = 5
    /\ message = Some("billing: item unavailable")
    /\ err = [kind |-> "ItemNotOwned", msg |-> "billing: item unavailable"]

----------------------------------------------------------------------------
Range(s) == {s[i] : i \in 1..Len(s)}

PlatformNotSupported == Err(Bare("PlatformNotSupported"))

\* C1: on the unsupported backend every command, whatever its arguments and
\* whatever was called before, has returned PlatformNotSupported, and no
\* native invocation was issued.
C1_UnsupportedAlwaysFails ==
    managed = "Unsupported" =>
        /\ invoked = << >>
        /\ \A c \in Callers :
            calls[c] # Idle =>
                /\ calls[c].status = "done"
                /\ calls[c].result = PlatformNotSupported
                /\ ~calls[c].response.some

C1_Witness ==
    /\ managed = "Unsupported"
    /\ invoked = << >>
    /\ calls["a"] # Idle /\ calls["a"].op = "initialize"
    /\ calls["a"].result = PlatformNotSupported
    /\ calls["b"] # Idle /\ calls["b"].op = "buy_consumable"
    /\ calls["b"].arg.auto_consume = Some(TRUE)
    /\ calls["b"].result = PlatformNotSupported

----------------------------------------------------------------------------
\* C5: a purchase-update event with a malformed payload is dropped: the
\* process keeps running.
C5_MalformedUpdateDropped ==
    (/\ lastEvent.handler = "onPurchaseUpdate"
     /\ get_string(lastEvent.payload).ok
     /\ ~from_str(lastEvent.payload).ok)
        => proc = "running"

----------------------------------------------------------------------------
----------------------------------------------------------------------------
\* C7: once setup has chosen the backend it never changes, and every command
\* invoked afterwards, by any caller, is dispatched to that backend.
C7_BackendFixed ==
    [][/\ managed # "none" => managed' = managed
       /\ \A c \in Callers :
            (calls'[c] # calls[c] /\ calls[c].status # "pending")
                => calls'[c].backend = managed /\ managed = BackendOf(cfg)]_vars

C7_Witness ==
    /\ managed = "Native"
    /\ calls["a"].status = "pending" /\ calls["a"].backend = "Native"
    /\ calls["b"].status = "done" /\ calls["b"].backend = "Native"

----------------------------------------------------------------------------
\* C8: on the native backend a command in progress has exactly one
\* invocation in flight, under its own name; a command that has returned has
\* none, and what it returned is the native answer: the value, or the native
\* error wrapped as PluginInvoke.
C8_OneInvocationPerCall ==
    managed = "Native" =>
        \A c \in Callers :
            /\ calls[c].status = "idle" => InFlight(c) = {}
            /\ calls[c].status = "pending" =>
                /\ Cardinality(InFlight(c)) = 1
                /\ \A k \in InFlight(c) : invoked[k].inv.name = calls[c].op
            /\ calls[c].status = "done" =>
                /\ InFlight(c) = {}
                /\ calls[c].response.some
                /\ LET r == calls[c].response.value IN
                    /\ r.ok => calls[c].result = r
                    /\ ~r.ok => /\ ~calls[c].result.ok
                                /\ calls[c].result.error.kind = "PluginInvoke"
                                /\ calls[c].result.error.source = r.error

C8_Witness ==
    /\ managed = "Native"
    /\ calls["a"].status = "done" /\ calls["a"].op = "is_available"
    /\ ~calls["a"].result.ok
    /\ InFlight("a") = {}
    /\ calls["b"].status = "pending" /\ calls["b"].op = "country_code"
    /\ Len(invoked) = 1 /\ invoked[1].inv.name = "country_code"

----------------------------------------------------------------------------
FoundIds(resp) == {resp.productDetails[i].id : i \in 1..Len(resp.productDetails)}

\* C9: the response of a successful query_product_details has disjoint found
\* and not-found ids, both among the requested ids.
C9_FoundAndMissingDisjoint ==
    \A c \in Callers :
        (/\ calls[c].status = "done"
         /\ calls[c].op = "query_product_details"
         /\ calls[c].result.ok)
            => LET resp == calls[c].result.value
                   requested == Range(calls[c].arg.product_ids)
               IN  /\ FoundIds(resp) \cap Range(resp.notFoundIds) = {}
                   /\ FoundIds(resp) \subseteq requested
                   /\ Range(resp.notFoundIds) \subseteq requested

C9_Witness ==
    /\ calls["a"].status = "done"
    /\ calls["a"].op = "query_product_details"
    /\ calls["a"].arg.product_ids = <<"p1", "p2">>
    /\ calls["a"].result =
            Ok([productDetails |-> <<ProductDetails("p1")>>,
                notFoundIds |-> <<"p2">>, error |-> Nothing])

----------------------------------------------------------------------------
\* C10: buy_consumable passes autoConsume = false to the backend when the
\* caller omits auto_consume and the caller's value when it is given, and
\* passes the purchase parameter unchanged; the native invocation carries both.
C10_AutoConsumeDefault ==
    \A c \in Callers :
        (calls[c] # Idle /\ calls[c].op = "buy_consumable") =>
            LET auto == IF calls[c].arg.auto_consume.some
                        THEN calls[c].arg.auto_consume.value ELSE FALSE
            IN  /\ calls[c].passed.auto_consume = auto
                /\ calls[c].passed.purchase_param = calls[c].arg.purchase_param
                /\ \A k \in InFlight(c) :
                    invoked[k].inv.payload =
                        [purchaseParam |-> calls[c].arg.purchase_param,
                         autoConsume |-> auto]

C10_Witness ==
    /\ calls["a"].status = "pending"
    /\ calls["a"].op = "buy_consumable"
    /\ calls["a"].arg.auto_consume = Nothing
    /\ invoked[1].inv.payload.autoConsume = FALSE
    /\ calls["b"].status = "pending"
    /\ calls["b"].op = "buy_consumable"
    /\ calls["b"].arg.auto_consume = Some(TRUE)
    /\ invoked[2].inv.payload.autoConsume = TRUE

====
